---- MODULE Spec2Model ----
(***************************************************************************)
(* PolyScan: the chunked document-analysis pipeline of chunked_analyzer.py *)
(* (loader, partitioner, chunk analyzer, fusion, report sink), and the     *)
(* upload route of app.py that runs it on an uploaded file.                *)
(*                                                                         *)
(* Document text is a Python str.  It is represented run-length encoded:   *)
(* a sequence of runs [c |-> character class, n |-> number of characters], *)
(* in normal form (no two adjacent runs of the same class).  The classes   *)
(* are the ones the regular expressions of the source tell apart:          *)
(*   "w"  any character that is none of the following                     *)
(*   "."  "!"  "?"   the sentence terminators of [.!?]                     *)
(*   " "  a whitespace character (\s)                                      *)
(*   "<"  ">"        the tag delimiters                                    *)
(* Texts returned by the completion service and texts built from them are  *)
(* plain strings, concatenated with \o.                                    *)
(***************************************************************************)
EXTENDS Integers, Sequences, FiniteSets, TLC

VARIABLES argv, file, artifacts, pc, chunk_size, sentences, chunks, results,
          final_report, calls, fusion_input, exit_status,
          runs,   \* the earlier runs on the document: [written, report] each
          web     \* the upload request the dashboard is serving

vars == <<argv, file, artifacts, pc, chunk_size, sentences, chunks, results,
          final_report, calls, fusion_input, exit_status, runs, web>>

\* no upload is being served: the run was started from the command line
NoRequest ==
  [stage |-> "none", upload |-> <<>>, tmp_file_path |-> <<>>, unlinks |-> 0,
   status |-> 0]

(***************************************************************************)
(* Strings                                                                 *)
(***************************************************************************)
Run(c, n) == [c |-> c, n |-> n]

IsTerm(c) == c \in {".", "!", "?"}

IsSpace(c) == c = " "

Min(a, b) == IF a < b THEN a ELSE b

SetMin(S) == CHOOSE i \in S : \A j \in S : i <= j

RECURSIVE SumN(_, _, _)
SumN(s, lo, hi) ==
  IF lo > hi THEN 0
  ELSE IF lo = hi THEN s[lo].n
  ELSE LET mid == (lo + hi) \div 2
       IN  SumN(s, lo, mid) + SumN(s, mid + 1, hi)

\* len(s)
StrLen(s) == SumN(s, 1, Len(s))

\* a + b
Concat(a, b) ==
  IF a = <<>> THEN b
  ELSE IF b = <<>> THEN a
  ELSE IF a[Len(a)].c = b[1].c
       THEN SubSeq(a, 1, Len(a) - 1)
              \o <<Run(b[1].c, a[Len(a)].n + b[1].n)>>
              \o SubSeq(b, 2, Len(b))
       ELSE a \o b

RECURSIVE ConcatAll(_, _, _)
ConcatAll(pieces, lo, hi) ==
  IF lo > hi THEN <<>>
  ELSE IF lo = hi THEN pieces[lo]
  ELSE LET mid == (lo + hi) \div 2
       IN  Concat(ConcatAll(pieces, lo, mid), ConcatAll(pieces, mid + 1, hi))

\* the indices lo..hi of s whose run has class c, ascending
RECURSIVE RunsOfClass(_, _, _, _)
RunsOfClass(s, c, lo, hi) ==
  IF lo > hi THEN <<>>
  ELSE IF lo = hi THEN (IF s[lo].c = c THEN <<lo>> ELSE <<>>)
  ELSE LET mid == (lo + hi) \div 2
       IN  RunsOfClass(s, c, lo, mid) \o RunsOfClass(s, c, mid + 1, hi)

\* the largest i in lo..hi with at most k characters in the runs 1..i
RECURSIVE WholeRuns(_, _, _, _)
WholeRuns(s, k, lo, hi) ==
  IF lo >= hi THEN lo
  ELSE LET mid == (lo + hi + 1) \div 2
       IN  IF SumN(s, 1, mid) <= k THEN WholeRuns(s, k, mid, hi)
           ELSE WholeRuns(s, k, lo, mid - 1)

\* s[:k]
Prefix(s, k) ==
  LET w    == WholeRuns(s, k, 0, Len(s))
      rest == k - SumN(s, 1, w)
  IN  IF w = Len(s) THEN s
      ELSE SubSeq(s, 1, w)
             \o (IF rest > 0 THEN <<Run(s[w + 1].c, rest)>> ELSE <<>>)

\* s.strip()
Strip(s) ==
  LET lo == IF s # <<>> /\ IsSpace(s[1].c) THEN 2 ELSE 1
      hi == IF s # <<>> /\ IsSpace(s[Len(s)].c) THEN Len(s) - 1 ELSE Len(s)
  IN  IF lo > hi THEN <<>> ELSE SubSeq(s, lo, hi)

(***************************************************************************)
(* Document Loader                                                         *)
(***************************************************************************)
\* the separators of re.split(r'(?<=[.!?])\s+', text): the whitespace runs
\* that directly follow a terminator
IsSeparator(text, i) ==
  /\ IsSpace(text[i].c)
  /\ i > 1
  /\ IsTerm(text[i - 1].c)

RECURSIVE Separators(_, _, _)
Separators(text, lo, hi) ==
  IF lo > hi THEN <<>>
  ELSE IF lo = hi THEN (IF IsSeparator(text, lo) THEN <<lo>> ELSE <<>>)
  ELSE LET mid == (lo + hi) \div 2
       IN  Separators(text, lo, mid) \o Separators(text, mid + 1, hi)

\* re.split(r'(?<=[.!?])\s+', text)
Split(text) ==
  LET seps == Separators(text, 1, Len(text))
      m    == Len(seps)
  IN  [k \in 1..(m + 1) |->
         LET lo == IF k = 1 THEN 1 ELSE seps[k - 1] + 1
             hi == IF k = m + 1 THEN Len(text) ELSE seps[k] - 1
         IN  IF lo > hi THEN <<>> ELSE SubSeq(text, lo, hi)]

MinSentenceLen == 10

\* a fragment of exactly MinSentenceLen characters is kept as well
KeepFragmentFrom10(s) == Strip(s) # <<>> /\ StrLen(Strip(s)) >= MinSentenceLen

KeepFragment(s) == Strip(s) # <<>> /\ StrLen(Strip(s)) > MinSentenceLen

extract_sentences_from_text(text) ==
  LET kept == SelectSeq(Split(text), KeepFragment)
  IN  [k \in 1..Len(kept) |-> Strip(kept[k])]

\* The text between two '>' characters, runs lo..j-1 of content, closed by
\* the first character of the '>' run j.  '<[^>]+>' matches from the first
\* '<' of the segment when at least one character lies between it and '>'.
TagStart(content, lo, j) ==
  LET lts == {i \in lo..(j - 1) : content[i].c = "<"}
  IN  IF lts = {} THEN 0
      ELSE LET i == SetMin(lts)
           IN  IF content[i].n >= 2 \/ i < j - 1 THEN i ELSE 0

RestOfClose(content, j) ==
  IF content[j].n > 1 THEN <<Run(">", content[j].n - 1)>> ELSE <<>>

StripTagsSegment(content, lo, j) ==
  LET i == TagStart(content, lo, j)
  IN  IF i = 0 THEN SubSeq(content, lo, j)
      ELSE Concat(SubSeq(content, lo, i - 1),
                  Concat(<<Run(" ", 1)>>, RestOfClose(content, j)))

\* the segments of the text that a '>' closes: the runs lo..close-1 and the
\* first character of the '>' run close
ClosedSegments(content) ==
  LET gts == RunsOfClass(content, ">", 1, Len(content))
  IN  [k \in 1..Len(gts) |->
         [lo |-> IF k = 1 THEN 1 ELSE gts[k - 1] + 1, close |-> gts[k]]]

\* the text after the last '>'
OpenSegment(content) ==
  LET gts == RunsOfClass(content, ">", 1, Len(content))
      lo  == IF gts = <<>> THEN 1 ELSE gts[Len(gts)] + 1
  IN  IF lo > Len(content) THEN <<>> ELSE SubSeq(content, lo, Len(content))

\* re.sub(r'<[^>]+>', ' ', content)
StripTags(content) ==
  LET segs   == ClosedSegments(content)
      pieces == [k \in 1..Len(segs) |->
                   StripTagsSegment(content, segs[k].lo, segs[k].close)]
  IN  Concat(ConcatAll(pieces, 1, Len(pieces)), OpenSegment(content))

\* re.sub(r'\s+', ' ', text)
CollapseWhitespace(text) ==
  [i \in 1..Len(text) |->
     IF IsSpace(text[i].c) THEN Run(" ", 1) ELSE text[i]]

\* '<\?[^>]*\?>' matches from the last '<' of the first '<' run that is
\* followed by '?', when the '>' is preceded by another '?'
PIStart(text, lo, j) ==
  LET cands == {i \in lo..(j - 2) :
                  /\ text[i].c = "<"
                  /\ text[i + 1].c = "?"
                  /\ text[j - 1].c = "?"
                  /\ (i + 1 < j - 1 \/ text[i + 1].n >= 2)}
  IN  IF cands = {} THEN 0 ELSE SetMin(cands)

RemovePISegment(text, lo, j) ==
  LET i == PIStart(text, lo, j)
  IN  IF i = 0 THEN SubSeq(text, lo, j)
      ELSE Concat(SubSeq(text, lo, i - 1),
                  Concat(IF text[i].n > 1 THEN <<Run("<", text[i].n - 1)>>
                         ELSE <<>>,
                         RestOfClose(text, j)))

\* re.sub(r'<\?[^>]*\?>', '', text)
RemovePI(text) ==
  LET segs   == ClosedSegments(text)
      pieces == [k \in 1..Len(segs) |->
                   RemovePISegment(text, segs[k].lo, segs[k].close)]
  IN  Concat(ConcatAll(pieces, 1, Len(pieces)), OpenSegment(text))

\* lines 75-79: the normalized text of an XML document
NormalizeXml(content) ==
  RemovePI(Strip(CollapseWhitespace(StripTags(content))))

MaxXmlChars == 50000

MaxXmlSentences == 200

\* "... [truncated for performance]"
TextTruncationMarker ==
  <<Run(".", 3), Run(" ", 1), Run("w", 10), Run(" ", 1), Run("w", 3),
    Run(" ", 1), Run("w", 12)>>

RECURSIVE Digits(_)
Digits(i) == IF i < 10 THEN 1 ELSE 1 + Digits(i \div 10)

\* f"XML Phrase {i}: "
XmlPhrase(i) ==
  <<Run("w", 3), Run(" ", 1), Run("w", 6), Run(" ", 1),
    Run("w", Digits(i) + 1), Run(" ", 1)>>

\* "XML Phrase 201: [Additional content truncated for performance]"
UnitTruncationMarker ==
  Concat(XmlPhrase(MaxXmlSentences + 1),
         <<Run("w", 11), Run(" ", 1), Run("w", 7), Run(" ", 1), Run("w", 9),
           Run(" ", 1), Run("w", 3), Run(" ", 1), Run("w", 12)>>)

\* lines 82-83
LimitText(text) ==
  IF StrLen(text) > MaxXmlChars
  THEN Concat(Prefix(text, MaxXmlChars), TextTruncationMarker)
  ELSE text

\* the truncation unit is added but the list is not cut
LimitSentencesNoCut(xml_sentences) ==
  LET phrase == [i \in 1..Len(xml_sentences) |->
                   Concat(XmlPhrase(i), xml_sentences[i])]
  IN  IF Len(xml_sentences) > MaxXmlSentences
      THEN Append(phrase, UnitTruncationMarker)
      ELSE phrase

\* lines 88-93
LimitSentences(xml_sentences) ==
  LET kept   == IF Len(xml_sentences) > MaxXmlSentences
                THEN SubSeq(xml_sentences, 1, MaxXmlSentences)
                ELSE xml_sentences
      phrase == [i \in 1..Len(kept) |-> Concat(XmlPhrase(i), kept[i])]
  IN  IF Len(xml_sentences) > MaxXmlSentences
      THEN Append(phrase, UnitTruncationMarker)
      ELSE phrase

\* f is the file at xml_path: [exists, readable, content]
read_xml_sentences(f) ==
  IF ~f.readable THEN <<>>
  ELSE LimitSentences(
         extract_sentences_from_text(LimitText(NormalizeXml(f.content))))

\* the handler returns the error message as a unit instead of []
read_txt_sentencesReportsError(f) ==
  IF ~f.readable THEN <<<<Run("w", 5), Run(" ", 1), Run("w", 7)>>>>
  ELSE extract_sentences_from_text(f.content)

read_txt_sentences(f) ==
  IF ~f.readable THEN <<>>
  ELSE extract_sentences_from_text(f.content)

\* An HTML document is the sequence of its elements [tag, text] in document
\* order.  soup(["script", "style"]) are decomposed; get_text() joins the
\* text of what is left.
GetText(content) ==
  LET visible == SelectSeq(content,
                           LAMBDA e : e.tag \notin {"script", "style"})
      texts   == [k \in 1..Len(visible) |-> visible[k].text]
  IN  ConcatAll(texts, 1, Len(texts))

read_html_sentences(f) ==
  IF ~f.readable THEN <<>>
  ELSE extract_sentences_from_text(GetText(f.content))

\* str.lower() on the extensions that occur
Lower(s) ==
  CASE s = "TXT" -> "txt"
    [] s = "XML" -> "xml"
    [] s = "HTML" -> "html"
    [] s = "PDF" -> "pdf"
    [] s = "README" -> "readme"
    [] OTHER -> s

\* A path is the sequence of the parts of the file name between the dots:
\* file_path.split('.')
Extension(file_path) == Lower(file_path[Len(file_path)])

read_file_sentences(file_path, f) ==
  LET ext == Extension(file_path)
  IN  IF ext = "xml" THEN read_xml_sentences(f)
      ELSE IF ext = "html" THEN read_html_sentences(f)
      ELSE IF ext = "txt" THEN read_txt_sentences(f)
      ELSE <<>>

(***************************************************************************)
(* Chunk Partitioner                                                       *)
(***************************************************************************)
DefaultChunkSize == 400

\* the last, shorter chunk is lost
RangeLenFloor(n, step) == n \div step

\* len(range(0, n, step))
RangeLen(n, step) == (n + step - 1) \div step

\* [sentences[i:i + size] for i in range(0, len(sentences), size)]
Partition(units, size) ==
  [k \in 1..RangeLen(Len(units), size) |->
     LET i == (k - 1) * size
     IN  SubSeq(units, i + 1, Min(i + size, Len(units)))]

(***************************************************************************)
(* Completion capability: what one bedrock.converse call does.  An outcome *)
(* is [kind, val]: kind "text" is a well-formed response carrying the text *)
(* val, kind "raise" an exception whose str() is val, kind "malformed" a   *)
(* response without the 'output' key.  The attempts the client makes       *)
(* inside one call (max_attempts) are part of that call.                   *)
(***************************************************************************)
ChunkMarker(chunk_num) == "Chunk " \o ToString(chunk_num) \o " analysis failed: "

FusionMarker == "Fusion analysis failed: "

Diagnostics == {"Read timeout", "ThrottlingException"}

CompletionTexts == {"1. BILL SUMMARY: ...", FusionMarker \o "Read timeout"}

Outcomes ==
  {[kind |-> "text", val |-> t] : t \in CompletionTexts}
    \cup {[kind |-> "raise", val |-> d] : d \in Diagnostics}
    \cup {[kind |-> "malformed", val |-> ""]}

Raises(outcome) == outcome.kind # "text"

\* str(e) of the exception the try block ends with
ExceptionText(outcome) ==
  IF outcome.kind = "malformed" THEN "'output'" ELSE outcome.val

(***************************************************************************)
(* Chunk Analyzer and Fusion Synthesizer                                   *)
(***************************************************************************)
\* the marker names the number of chunks instead of the chunk
analyze_chunkTotalInMarker(chunk, chunk_num, total_chunks, outcome) ==
  IF Raises(outcome)
  THEN ChunkMarker(total_chunks) \o ExceptionText(outcome)
  ELSE outcome.val

analyze_chunk(chunk, chunk_num, total_chunks, outcome) ==
  IF Raises(outcome)
  THEN ChunkMarker(chunk_num) \o ExceptionText(outcome)
  ELSE outcome.val

\* the marker is returned without the diagnostic
fusion_analysisDropsDiagnostic(chunk_results, outcome) ==
  IF Raises(outcome) THEN FusionMarker ELSE outcome.val

fusion_analysis(chunk_results, outcome) ==
  IF Raises(outcome)
  THEN FusionMarker \o ExceptionText(outcome)
  ELSE outcome.val

\* f"CHUNK {i}:\n{result}"
ChunkEntry(i, result) == "CHUNK " \o ToString(i) \o ":\n" \o result

(***************************************************************************)
(* Report Sink                                                             *)
(***************************************************************************)
RECURSIVE JoinDots(_)
JoinDots(parts) ==
  IF Len(parts) = 1 THEN parts[1]
  ELSE parts[1] \o "." \o JoinDots(Tail(parts))

\* os.path.splitext(os.path.basename(file_path))[0]
BaseName(file_path) ==
  IF Len(file_path) = 1 THEN file_path[1]
  ELSE IF Len(file_path) = 2 /\ file_path[1] = "" THEN "." \o file_path[2]
  ELSE JoinDots(SubSeq(file_path, 1, Len(file_path) - 1))

OutputFile(file_path) ==
  "consolidated_analysis_" \o BaseName(file_path) \o ".txt"

NoFile == [exists |-> FALSE, data |-> ""]

StoredFile(data) == [exists |-> TRUE, data |-> data]

\* open(output_file, 'w') fails, f.write fails after the file was opened
\* (and truncated), or both succeed
SinkOutcomes == {"written", "open fails", "write fails"}

(***************************************************************************)
(* Documents                                                               *)
(***************************************************************************)
\* the i-th sentence of a generated document: len(MinSentenceLen + i) word
\* characters and a full stop, so that no two sentences are equal
GenSentence(i) == <<Run("w", MinSentenceLen + i), Run(".", 1)>>

\* k generated sentences, one space between them
GenText(k) ==
  [j \in 1..(IF k = 0 THEN 0 ELSE 3 * k - 1) |->
     IF j % 3 = 1 THEN Run("w", MinSentenceLen + (j + 2) \div 3)
     ELSE IF j % 3 = 2 THEN Run(".", 1)
     ELSE Run(" ", 1)]

\* <?xml?><bill> text </bill>
XmlWrap(text) ==
  <<Run("<", 1), Run("?", 1), Run("w", 3), Run("?", 1), Run(">", 1),
    Run("<", 1), Run("w", 4), Run(">", 1)>>
    \o text \o <<Run("<", 1), Run("w", 5), Run(">", 1)>>

HtmlPage(text) ==
  <<[tag |-> "style", text |-> GenText(1)],
    [tag |-> "p", text |-> text],
    [tag |-> "script", text |-> GenText(2)]>>

File(exists, readable, content) ==
  [exists |-> exists, readable |-> readable, content |-> content]

Missing == File(FALSE, FALSE, <<>>)

\* how many units more than a whole number of chunks the long documents hold
ExtraUnits == 1

DocSizes ==
  {0, 1, DefaultChunkSize, DefaultChunkSize + ExtraUnits,
   2 * DefaultChunkSize + ExtraUnits}

\* the runs a document [path, file] can be started on
Documents ==
  {[path |-> <<"bill", "txt">>, file |-> File(TRUE, TRUE, GenText(k))] :
     k \in DocSizes}
  \cup
  {[path |-> <<"note", "TXT">>, file |-> File(TRUE, TRUE, <<Run("w", 5)>>)],
   [path |-> <<"law", "xml">>, file |-> File(TRUE, TRUE, XmlWrap(GenText(2)))],
   [path |-> <<"law", "v2", "xml">>,
    file |-> File(TRUE, TRUE, XmlWrap(GenText(MaxXmlSentences + ExtraUnits)))],
   [path |-> <<"empty", "xml">>, file |-> File(TRUE, TRUE, XmlWrap(<<>>))],
   [path |-> <<"page", "html">>, file |-> File(TRUE, TRUE, HtmlPage(GenText(3)))],
   [path |-> <<"page", "html">>, file |-> File(TRUE, TRUE, HtmlPage(<<>>))],
   [path |-> <<"scan", "pdf">>, file |-> File(TRUE, TRUE, GenText(3))],
   [path |-> <<"README">>, file |-> File(TRUE, TRUE, GenText(3))],
   [path |-> <<"locked", "txt">>, file |-> File(TRUE, FALSE, GenText(3))],
   [path |-> <<"locked", "xml">>, file |-> File(TRUE, FALSE, GenText(3))],
   [path |-> <<"gone", "txt">>, file |-> Missing]}

ArtifactNames == {OutputFile(d.path) : d \in Documents}

OldReport == "report of an earlier run"

(***************************************************************************)
(* main(): one standalone run                                              *)
(***************************************************************************)
Program == <<"chunked_analyzer", "py">>

\* how many arguments a run can be started with
MaxArgs == 2

Unset == -1

Init ==
  \E d \in Documents, n \in 0..MaxArgs, prior \in {NoFile, StoredFile(OldReport)} :
    /\ argv = <<Program>> \o [k \in 1..n |-> d.path]
    /\ file = d.file
    /\ artifacts = [name \in ArtifactNames |-> prior]
    /\ pc = "start"
    /\ chunk_size = DefaultChunkSize
    /\ sentences = <<>>
    /\ chunks = <<>>
    /\ results = <<>>
    /\ final_report = ""
    /\ calls = <<>>
    /\ fusion_input = <<>>
    /\ exit_status = Unset
    /\ runs = <<>>
    /\ web = NoRequest

\* main returns: the interpreter exits with status 0
Return ==
  /\ pc' = "exit"
  /\ exit_status' = 0

\* lines 175-177
MainUsage ==
  /\ pc = "start"
  /\ Len(argv) # 2
  /\ Return
  /\ UNCHANGED <<runs, web, argv, file, artifacts, chunk_size, sentences, chunks,
                 results, final_report, calls, fusion_input>>

\* lines 179-183
MainFileNotFound ==
  /\ pc = "start"
  /\ Len(argv) = 2
  /\ ~file.exists
  /\ Return
  /\ UNCHANGED <<runs, web, argv, file, artifacts, chunk_size, sentences, chunks,
                 results, final_report, calls, fusion_input>>

\* lines 191-197
MainRead ==
  /\ pc = "start"
  /\ Len(argv) = 2
  /\ file.exists
  /\ sentences' = read_file_sentences(argv[2], file)
  /\ IF sentences' = <<>>
     THEN /\ Return
          /\ UNCHANGED <<chunk_size, chunks>>
     ELSE /\ chunk_size' = DefaultChunkSize
          /\ chunks' = Partition(sentences', chunk_size')
          /\ pc' = "analyze"
          /\ UNCHANGED exit_status
  /\ UNCHANGED <<runs, web, argv, file, artifacts, results, final_report, calls,
                 fusion_input>>

Call(op, num, outcome) == [op |-> op, num |-> num, outcome |-> outcome]

\* the exception of a chunk call is not caught: the run ends with status 1
MainAnalyzeAborts ==
  /\ pc = "analyze"
  /\ \E outcome \in Outcomes :
       LET i      == Len(results) + 1
           result == analyze_chunk(chunks[i], i, Len(chunks), outcome)
       IN  /\ calls' = Append(calls, Call("chunk", i, outcome))
           /\ IF Raises(outcome)
              THEN /\ pc' = "exit"
                   /\ exit_status' = 1
                   /\ UNCHANGED results
              ELSE /\ results' = Append(results, ChunkEntry(i, result))
                   /\ pc' = IF i = Len(chunks) THEN "fusion" ELSE "analyze"
                   /\ UNCHANGED exit_status
  /\ UNCHANGED <<runs, web, argv, file, artifacts, chunk_size, sentences, chunks,
                 final_report, fusion_input>>

\* a chunk whose call failed is called a second time
MainAnalyzeRetries ==
  /\ pc = "analyze"
  /\ \E outcome \in Outcomes, again \in Outcomes :
       LET i      == Len(results) + 1
           final  == IF Raises(outcome) THEN again ELSE outcome
           result == analyze_chunk(chunks[i], i, Len(chunks), final)
       IN  /\ results' = Append(results, ChunkEntry(i, result))
           /\ calls' = IF Raises(outcome)
                       THEN calls \o <<Call("chunk", i, outcome),
                                       Call("chunk", i, again)>>
                       ELSE Append(calls, Call("chunk", i, outcome))
           /\ pc' = IF i = Len(chunks) THEN "fusion" ELSE "analyze"
  /\ UNCHANGED <<runs, web, argv, file, artifacts, chunk_size, sentences, chunks,
                 final_report, fusion_input, exit_status>>

\* lines 204-209: one iteration of the loop over enumerate(chunks, 1)
MainAnalyze ==
  /\ pc = "analyze"
  /\ \E outcome \in Outcomes :
       LET i      == Len(results) + 1
           result == analyze_chunk(chunks[i], i, Len(chunks), outcome)
       IN  /\ results' = Append(results, ChunkEntry(i, result))
           /\ calls' = Append(calls, Call("chunk", i, outcome))
           /\ pc' = IF i = Len(chunks) THEN "fusion" ELSE "analyze"
  /\ UNCHANGED <<runs, web, argv, file, artifacts, chunk_size, sentences, chunks,
                 final_report, fusion_input, exit_status>>

\* line 217
MainFusion ==
  /\ pc = "fusion"
  /\ \E outcome \in Outcomes :
       /\ fusion_input' = results
       /\ final_report' = fusion_analysis(results, outcome)
       /\ calls' = Append(calls, Call("fusion", 0, outcome))
  /\ pc' = "sink"
  /\ UNCHANGED <<runs, web, argv, file, artifacts, chunk_size, sentences, chunks,
                 results, exit_status>>

\* the file is opened with 'a': the report is added to the old content
MainSinkAppends ==
  /\ pc = "sink"
  /\ \E how \in SinkOutcomes :
       LET output_file == OutputFile(argv[2])
       IN  /\ artifacts' =
                IF how = "written"
                THEN [artifacts EXCEPT ![output_file] =
                        StoredFile(artifacts[output_file].data \o final_report)]
                ELSE artifacts
           /\ calls' = Append(calls,
                              Call("write", 0, [kind |-> how, val |-> output_file]))
           /\ exit_status' = IF how = "written" THEN 0 ELSE 1
  /\ pc' = "exit"
  /\ UNCHANGED <<runs, web, argv, file, chunk_size, sentences, chunks, results,
                 final_report, fusion_input>>

\* lines 228-231; an exception of open or write is not caught: status 1
MainSink ==
  /\ pc = "sink"
  /\ \E how \in SinkOutcomes :
       LET output_file == OutputFile(argv[2])
       IN  /\ artifacts' =
                IF how = "written"
                THEN [artifacts EXCEPT ![output_file] = StoredFile(final_report)]
                ELSE IF how = "write fails"
                THEN [artifacts EXCEPT ![output_file] = StoredFile("")]
                ELSE artifacts
           /\ calls' = Append(calls,
                              Call("write", 0, [kind |-> how, val |-> output_file]))
           /\ exit_status' = IF how = "written" THEN 0 ELSE 1
  /\ pc' = "exit"
  /\ UNCHANGED <<runs, web, argv, file, chunk_size, sentences, chunks, results,
                 final_report, fusion_input>>

Next ==
  \/ MainUsage
  \/ MainFileNotFound
  \/ MainRead
  \/ MainAnalyze
  \/ MainFusion
  \/ MainSink

Spec == Init /\ [][Next]_vars

(***************************************************************************)
(* The partition step on its own: every unit count and chunk size          *)
(***************************************************************************)
MaxUnits == 12

MaxChunkSize == 5

UnitCounts ==
  1..MaxUnits
    \cup {DefaultChunkSize - 1, DefaultChunkSize, DefaultChunkSize + ExtraUnits,
          2 * DefaultChunkSize, 2 * DefaultChunkSize + ExtraUnits}

ChunkSizes == 1..MaxChunkSize \cup {DefaultChunkSize}

PartitionInit ==
  \E n \in UnitCounts, size \in ChunkSizes :
    /\ argv = <<Program, <<"bill", "txt">>>>
    /\ file = File(TRUE, TRUE, GenText(n))
    /\ artifacts = [name \in ArtifactNames |-> NoFile]
    /\ pc = "partition"
    /\ chunk_size = size
    /\ sentences = read_file_sentences(<<"bill", "txt">>, File(TRUE, TRUE, GenText(n)))
    /\ chunks = <<>>
    /\ results = <<>>
    /\ final_report = ""
    /\ calls = <<>>
    /\ fusion_input = <<>>
    /\ exit_status = Unset
    /\ runs = <<>>
    /\ web = NoRequest

\* line 197
PartitionStep ==
  /\ pc = "partition"
  /\ chunks' = Partition(sentences, chunk_size)
  /\ pc' = "partitioned"
  /\ UNCHANGED <<runs, web, argv, file, artifacts, chunk_size, sentences, results,
                 final_report, calls, fusion_input, exit_status>>

SpecPartition == PartitionInit /\ [][PartitionStep]_vars

\* the least m with m * size >= n
Ceil(n, size) == CHOOSE m \in 0..n : m * size >= n /\ (m - 1) * size < n

RECURSIVE Flatten(_, _, _)
Flatten(seqs, lo, hi) ==
  IF lo > hi THEN <<>>
  ELSE IF lo = hi THEN seqs[lo]
  ELSE LET mid == (lo + hi) \div 2
       IN  Flatten(seqs, lo, mid) \o Flatten(seqs, mid + 1, hi)

\* C1: N >= 1 units and chunk size C give exactly ceil(N/C) chunks with
\* ordinals 1..ceil(N/C), none of them empty, all but the last of exactly C
\* units, and the chunks concatenated in ordinal order are the unit sequence.
PartitionExact ==
  (pc = "partitioned" /\ Len(sentences) >= 1) =>
    /\ DOMAIN chunks = 1..Ceil(Len(sentences), chunk_size)
    /\ \A k \in DOMAIN chunks : Len(chunks[k]) >= 1
    /\ \A k \in DOMAIN chunks : k < Len(chunks) => Len(chunks[k]) = chunk_size
    /\ Flatten(chunks, 1, Len(chunks)) = sentences

PartitionWitness ==
  /\ pc = "partitioned"
  /\ Len(chunks) = 3
  /\ Len(chunks[3]) < chunk_size
  /\ chunk_size = DefaultChunkSize

(***************************************************************************)
(* Properties of a standalone run                                          *)
(***************************************************************************)
CallsOf(op) == SelectSeq(calls, LAMBDA c : c.op = op)

\* the run passed the input checks of main
Admitted == chunks # <<>>

FusionCalled == CallsOf("fusion") # <<>>

FusionFailed == FusionCalled /\ Raises(CallsOf("fusion")[1].outcome)

WriteTried == CallsOf("write") # <<>>

Written == WriteTried /\ CallsOf("write")[1].outcome.kind = "written"

Supported == {"xml", "html", "txt"}

\* unsupported format tag, missing or unreadable file, or no unit extracted
InputError ==
  /\ Len(argv) = 2
  /\ \/ Extension(argv[2]) \notin Supported
     \/ ~file.exists
     \/ ~file.readable
     \/ (pc # "start" /\ sentences = <<>>)

SinkError == WriteTried /\ ~Written

\* the diagnostic of a failed call: str() of what the call raised
Diagnostic(outcome) ==
  CASE outcome.kind = "raise" -> outcome.val
    [] outcome.kind = "malformed" -> "'output'"

\* C2: the input of fusion_analysis holds one entry per chunk, labelled
\* with the chunk's ordinal, in ascending order 1..N; the entry of a failed
\* chunk k is the marker "Chunk k analysis failed: <diagnostic>" at position
\* k, and every entry depends on the outcome of its own chunk only.
FusionInputByOrdinal ==
  FusionCalled =>
    /\ DOMAIN fusion_input = DOMAIN chunks
    /\ \A k \in DOMAIN chunks :
         LET outcome == CallsOf("chunk")[k].outcome
             label   == "CHUNK " \o ToString(k) \o ":\n"
         IN  fusion_input[k] =
               IF outcome.kind = "text"
               THEN label \o outcome.val
               ELSE label \o "Chunk " \o ToString(k) \o " analysis failed: "
                          \o Diagnostic(outcome)

FusionInputWitness ==
  /\ FusionCalled
  /\ Len(chunks) = 3
  /\ CallsOf("chunk")[1].outcome.kind = "text"
  /\ CallsOf("chunk")[2].outcome.kind = "raise"
  /\ CallsOf("chunk")[3].outcome.kind = "text"

\* C3: a chunk call that raises does not abort the run: no run ends
\* between the input checks and the sink, and a run that passed the input
\* checks ends with every chunk analyzed, the fusion call made and the
\* report written to the artifact (when the write itself succeeds).
GracefulDegradation ==
  /\ pc \in {"analyze", "fusion", "sink"} => exit_status = Unset
  /\ (pc = "exit" /\ Admitted) =>
       /\ Len(CallsOf("chunk")) = Len(chunks)
       /\ FusionCalled
       /\ WriteTried
       /\ Written => artifacts[OutputFile(argv[2])] = StoredFile(final_report)

AllChunksFailed == \A k \in DOMAIN chunks : Raises(CallsOf("chunk")[k].outcome)

GracefulDegradationWitness ==
  /\ pc = "exit"
  /\ Len(chunks) = 3
  /\ AllChunksFailed
  /\ Written
  /\ artifacts[OutputFile(argv[2])] = StoredFile(final_report)

\* C4: a run on an InputError ends without any completion call and without
\* writing or changing any artifact.
InputErrorTouchesNothing ==
  [][(pc' = "exit" /\ InputError') =>
       (calls' = <<>> /\ artifacts' = artifacts)]_vars

InputErrorWitness ==
  /\ pc = "exit"
  /\ InputError
  /\ file.readable
  /\ Extension(argv[2]) = "txt"
  /\ artifacts[OutputFile(argv[2])] = StoredFile(OldReport)

\* C5: the run exits with a non-zero status exactly on an InputError or a
\* SinkError.
ExitStatusSignalsFailure ==
  pc = "exit" => (exit_status # 0 <=> (InputError \/ SinkError))

\* C6: a failed fusion call gives the report "Fusion analysis failed:
\* <diagnostic>"; the run goes on to the sink, and when the write succeeds
\* the artifact holds that text and the exit status is 0.
FusionFailureIsReported ==
  FusionFailed =>
    /\ final_report
         = "Fusion analysis failed: " \o Diagnostic(CallsOf("fusion")[1].outcome)
    /\ pc \in {"sink", "exit"}
    /\ pc = "exit" => WriteTried
    /\ (pc = "exit" /\ Written) =>
         /\ artifacts[OutputFile(argv[2])] = StoredFile(final_report)
         /\ exit_status = 0

FusionFailureWitness ==
  /\ pc = "exit"
  /\ FusionFailed
  /\ Written
  /\ exit_status = 0

\* every text that can follow the marker
MarkerTails == Diagnostics \cup CompletionTexts \cup {"'output'", ""}

\* the text starts with the fusion failure marker
HasFusionMarker(text) == \E tail \in MarkerTails : text = FusionMarker \o tail

\* C7: the result of fusion_analysis carries the failure marker if and only
\* if the fusion call failed.
FusionMarkerIffFailed ==
  FusionCalled => (HasFusionMarker(final_report) <=> FusionFailed)

\* C8: exactly one analyzer call per chunk, for the chunks 1..N in order and
\* none repeated, then exactly one fusion call, issued after all N results
\* are in, then the write, after the fusion call has returned.
CallOrder ==
  LET n == Len(chunks)
  IN  /\ Len(calls) <= n + 2
      /\ ~Admitted => calls = <<>>
      /\ \A i \in DOMAIN calls :
           /\ i <= n => (calls[i].op = "chunk" /\ calls[i].num = i)
           /\ i = n + 1 => (calls[i].op = "fusion" /\ Len(fusion_input) = n)
           /\ i = n + 2 => (calls[i].op = "write" /\ pc = "exit")
      /\ Len(results) = Min(Len(calls), n)
      /\ (pc = "exit" /\ Admitted) => Len(calls) = n + 2

CallOrderWitness ==
  /\ pc = "exit"
  /\ Len(chunks) = 3
  /\ Len(calls) = 5

(***************************************************************************)
(* The loader on its own: every short text, and the XML documents around   *)
(* the two limits                                                          *)
(***************************************************************************)
MaxRuns == 5

RunChoices ==
  {Run("w", 1), Run("w", MinSentenceLen - 1), Run("w", MinSentenceLen),
   Run(".", 1), Run("?", 1), Run(" ", 1), Run(" ", 2)}

\* the texts of at most n runs, in normal form
RECURSIVE Texts(_)
Texts(n) ==
  IF n = 0 THEN {<<>>}
  ELSE LET shorter == Texts(n - 1)
           longest == {t \in shorter : Len(t) = n - 1}
       IN  shorter \cup
             {Append(x[1], x[2]) :
                x \in {y \in longest \X RunChoices :
                         y[1] = <<>> \/ y[1][Len(y[1])].c # y[2].c}}

\* k sentences of w word characters and a full stop, one space between them
UniformText(k, w) ==
  [j \in 1..(IF k = 0 THEN 0 ELSE 3 * k - 1) |->
     IF j % 3 = 1 THEN Run("w", w)
     ELSE IF j % 3 = 2 THEN Run(".", 1)
     ELSE Run(" ", 1)]

\* the w for which UniformText(k, w) has len characters
WordLenFor(k, len) == (len + 1) \div k - 2

\* [k, w]: sentence counts and text lengths on both sides of the two limits
XmlShapes ==
  {<<k, MinSentenceLen + 1>> :
     k \in {MaxXmlSentences - 1, MaxXmlSentences, MaxXmlSentences + ExtraUnits}}
  \cup
  {<<1, WordLenFor(1, len)>> :
     len \in {MaxXmlChars - 1, MaxXmlChars, MaxXmlChars + ExtraUnits}}
  \cup
  {<<k, WordLenFor(k, MaxXmlChars) + d>> :
     k \in {MaxXmlSentences, MaxXmlSentences + ExtraUnits}, d \in {0, 1}}

LoaderDocuments ==
  {[path |-> <<"bill", "txt">>, file |-> File(TRUE, TRUE, t)] :
     t \in Texts(MaxRuns)}
  \cup
  {[path |-> <<"law", "xml">>,
    file |-> File(TRUE, TRUE, XmlWrap(UniformText(x[1], x[2])))] :
     x \in XmlShapes}
  \cup
  {[path |-> <<"law", "xml">>,
    file |-> File(TRUE, TRUE, XmlWrap(GenText(MaxXmlSentences + ExtraUnits)))],
   [path |-> <<"page", "html">>, file |-> File(TRUE, TRUE, HtmlPage(GenText(2)))],
   [path |-> <<"locked", "xml">>, file |-> File(TRUE, FALSE, GenText(2))],
   [path |-> <<"scan", "pdf">>, file |-> File(TRUE, TRUE, GenText(2))]}

LoaderInit ==
  \E d \in LoaderDocuments :
    /\ argv = <<Program, d.path>>
    /\ file = d.file
    /\ artifacts = [name \in ArtifactNames |-> NoFile]
    /\ pc = "load"
    /\ chunk_size = DefaultChunkSize
    /\ sentences = <<>>
    /\ chunks = <<>>
    /\ results = <<>>
    /\ final_report = ""
    /\ calls = <<>>
    /\ fusion_input = <<>>
    /\ exit_status = Unset
    /\ runs = <<>>
    /\ web = NoRequest

\* line 191
LoadStep ==
  /\ pc = "load"
  /\ sentences' = read_file_sentences(argv[2], file)
  /\ pc' = "loaded"
  /\ UNCHANGED <<runs, web, argv, file, artifacts, chunk_size, chunks, results,
                 final_report, calls, fusion_input, exit_status>>

SpecLoader == LoaderInit /\ [][LoadStep]_vars

Loaded(ext) ==
  /\ pc = "loaded"
  /\ Extension(argv[2]) = ext
  /\ file.readable

\* the text extract_sentences_from_text is given for an XML document, as
\* the claim describes it
XmlTextAsClaimed ==
  LET norm == NormalizeXml(file.content)
  IN  IF StrLen(norm) > 50000
      THEN Concat(Prefix(norm, 50000), TextTruncationMarker)
      ELSE norm

\* C9: normalized XML text of more than 50,000 characters is cut to its
\* first 50,000 characters plus the truncation marker; more than 200 units
\* are cut to the first 200, in order, plus one truncation unit; the result
\* never holds more than 201 units; under both limits nothing is dropped and
\* no marker is added.
XmlOutputBounded ==
  Loaded("xml") =>
    LET units == extract_sentences_from_text(XmlTextAsClaimed)
        first == Min(Len(units), 200)
    IN  /\ Len(sentences) <= 201
        /\ \A i \in 1..first : sentences[i] = Concat(XmlPhrase(i), units[i])
        /\ Len(units) > 200 =>
             /\ Len(sentences) = 201
             /\ sentences[201] = UnitTruncationMarker
        /\ Len(units) <= 200 =>
             /\ Len(sentences) = Len(units)
             /\ \A i \in DOMAIN sentences : sentences[i] # UnitTruncationMarker
        /\ StrLen(NormalizeXml(file.content)) <= 50000 =>
             units = extract_sentences_from_text(NormalizeXml(file.content))

XmlOutputWitness ==
  /\ Loaded("xml")
  /\ StrLen(NormalizeXml(file.content)) > 50000
  /\ Len(extract_sentences_from_text(XmlTextAsClaimed)) > 200
  /\ Len(sentences) = 201
  /\ sentences[201] = UnitTruncationMarker

\* the j-th smallest element of a set of numbers
Nth(S, j) == CHOOSE k \in S : Cardinality({x \in S : x < k}) = j - 1

\* the units are the trimmed fragments of at least min characters, in
\* document order, and no unit holds a boundary (whitespace after a
\* terminator) or starts or ends with whitespace
UnitsAreFragmentsFrom(min) ==
  LET fragments == Split(file.content)
      trimmed   == [k \in DOMAIN fragments |-> Strip(fragments[k])]
      kept      == {k \in DOMAIN trimmed : StrLen(trimmed[k]) >= min}
  IN  /\ Len(sentences) = Cardinality(kept)
      /\ \A j \in DOMAIN sentences :
           LET unit == sentences[j]
           IN  /\ unit = trimmed[Nth(kept, j)]
               /\ ~IsSpace(unit[1].c)
               /\ ~IsSpace(unit[Len(unit)].c)
               /\ \A i \in 2..Len(unit) :
                    ~(IsSpace(unit[i].c) /\ IsTerm(unit[i - 1].c))

\* C10 as stated: the fragments shorter than 10 characters are discarded,
\* every fragment of 10 or more characters is kept.
SegmentationKeepsFrom10 == Loaded("txt") => UnitsAreFragmentsFrom(10)

\* C10, amended: the fragments of 10 characters or fewer are discarded,
\* every fragment of 11 or more characters is kept, in document order.
SegmentationKeepsFrom11 == Loaded("txt") => UnitsAreFragmentsFrom(11)

SegmentationWitness ==
  /\ Loaded("txt")
  /\ Len(sentences) = 1
  /\ Len(Split(file.content)) = 2
  /\ \E k \in 1..2 : StrLen(Strip(Split(file.content)[k])) = 10

(***************************************************************************)
(* Several standalone runs on the same document, one after the other       *)
(***************************************************************************)
\* how many earlier runs a run can follow
MaxEarlierRuns == 1

RunDocuments ==
  {d \in Documents :
     d.path \in {<<"note", "TXT">>, <<"law", "xml">>, <<"law", "v2", "xml">>,
                 <<"scan", "pdf">>}}

RunsInit ==
  \E d \in RunDocuments, prior \in {NoFile, StoredFile(OldReport)} :
    /\ argv = <<Program, d.path>>
    /\ file = d.file
    /\ artifacts = [name \in ArtifactNames |-> prior]
    /\ pc = "start"
    /\ chunk_size = DefaultChunkSize
    /\ sentences = <<>>
    /\ chunks = <<>>
    /\ results = <<>>
    /\ final_report = ""
    /\ calls = <<>>
    /\ fusion_input = <<>>
    /\ exit_status = Unset
    /\ runs = <<>>
    /\ web = NoRequest

\* the process has ended and the program is started again on the same file:
\* only the file system is carried over
RunAgain ==
  /\ pc = "exit"
  /\ Len(runs) < MaxEarlierRuns
  /\ runs' = Append(runs,
                    [written |-> \E c \in {calls[i] : i \in DOMAIN calls} :
                                   c.op = "write" /\ c.outcome.kind = "written",
                     report  |-> final_report])
  /\ pc' = "start"
  /\ sentences' = <<>>
  /\ chunks' = <<>>
  /\ results' = <<>>
  /\ final_report' = ""
  /\ calls' = <<>>
  /\ fusion_input' = <<>>
  /\ exit_status' = Unset
  /\ UNCHANGED <<web, argv, file, artifacts, chunk_size>>

RunsNext ==
  \/ MainRead
  \/ MainAnalyze
  \/ MainFusion
  \/ MainSink
  \/ RunAgain

SpecRuns == RunsInit /\ [][RunsNext]_vars

\* the artifact of the documents that are run, by base name
ArtifactOf(file_path) ==
  CASE file_path = <<"note", "TXT">> -> "consolidated_analysis_note.txt"
    [] file_path = <<"law", "xml">> -> "consolidated_analysis_law.txt"
    [] file_path = <<"law", "v2", "xml">> -> "consolidated_analysis_law.v2.txt"
    [] file_path = <<"scan", "pdf">> -> "consolidated_analysis_scan.txt"

\* C11: every successful run on a document with base name B leaves the
\* whole report, and nothing else, in consolidated_analysis_B.txt; until the
\* next run reaches the sink the artifact holds the report of the last run;
\* no run creates or changes an artifact of another name.
SinkOverwrites ==
  LET name   == ArtifactOf(argv[2])
      others == DOMAIN artifacts \ {name}
  IN  /\ (pc = "exit" /\ Written) => artifacts[name] = StoredFile(final_report)
      /\ (pc # "exit" /\ runs # <<>> /\ runs[Len(runs)].written) =>
           artifacts[name] = StoredFile(runs[Len(runs)].report)
      /\ \A n \in others : artifacts[n] \in {NoFile, StoredFile(OldReport)}
      /\ \A n1 \in others, n2 \in others : artifacts[n1] = artifacts[n2]

SinkOverwritesWitness ==
  /\ pc = "exit"
  /\ Written
  /\ runs # <<>>
  /\ runs[1].written
  /\ runs[1].report # final_report
  /\ artifacts[ArtifactOf(argv[2])] = StoredFile(final_report)

(***************************************************************************)
(* app.py: the upload route of the dashboard, which runs the analyzer as   *)
(* a subprocess on a temporary copy of the uploaded file                   *)
(***************************************************************************)
ALLOWED_EXTENSIONS == {"xml", "html", "pdf", "txt"}

\* A file name is the sequence of its parts between the dots, so
\* '.' in filename is Len(filename) >= 2 and rsplit('.', 1)[1] is the last part
allowed_file(filename) ==
  /\ Len(filename) >= 2
  /\ Lower(filename[Len(filename)]) \in ALLOWED_EXTENSIONS

\* werkzeug's secure_filename on names of ASCII letters and dots: the dots at
\* both ends are stripped
RECURSIVE secure_filename(_)
secure_filename(filename) ==
  IF filename = <<>> THEN <<>>
  ELSE IF Head(filename) = "" THEN secure_filename(Tail(filename))
  ELSE IF filename[Len(filename)] = ""
       THEN secure_filename(SubSeq(filename, 1, Len(filename) - 1))
  ELSE filename

\* filename.split('.')[-1]
Suffix(filename) ==
  IF filename = <<>> THEN "" ELSE filename[Len(filename)]

\* the responses of the route
Ok == 200
BadRequest == 400
RequestTimeout == 408
ServerError == 500

Upload(present, filename, content, decodable) ==
  [present |-> present, filename |-> filename, content |-> content,
   decodable |-> decodable]

\* requests.files['file']: the form part, its file name and its bytes
Uploads ==
  {Upload(FALSE, <<"">>, <<>>, TRUE),
   Upload(TRUE, <<"">>, <<>>, TRUE),
   Upload(TRUE, <<"bill", "txt">>, GenText(1), TRUE),
   Upload(TRUE, <<"bill", "txt">>, GenText(DefaultChunkSize + ExtraUnits), TRUE),
   Upload(TRUE, <<"note", "TXT">>, <<Run("w", 5)>>, TRUE),
   Upload(TRUE, <<"", "txt">>, GenText(1), TRUE),
   Upload(TRUE, <<"latin1", "txt">>, GenText(2), FALSE),
   Upload(TRUE, <<"law", "xml">>, XmlWrap(GenText(2)), TRUE),
   Upload(TRUE, <<"page", "html">>, HtmlPage(GenText(3)), TRUE),
   Upload(TRUE, <<"scan", "pdf">>, GenText(3), TRUE),
   Upload(TRUE, <<"README">>, GenText(3), TRUE),
   Upload(TRUE, <<"setup", "exe">>, GenText(3), TRUE)}

\* the random names NamedTemporaryFile can give
TmpNames == {"tmpk3x9q2ab", "tmp_w81zr5c"}

UploadArtifactNames ==
  {OutputFile(<<name, "txt">>) : name \in TmpNames}

UploadInit ==
  \E upload \in Uploads :
    /\ web = [stage |-> "received", upload |-> upload, tmp_file_path |-> <<>>,
              unlinks |-> 0, status |-> 0]
    /\ argv = <<Program>>
    /\ file = Missing
    /\ artifacts = [name \in UploadArtifactNames |-> NoFile]
    /\ pc = "idle"
    /\ chunk_size = DefaultChunkSize
    /\ sentences = <<>>
    /\ chunks = <<>>
    /\ results = <<>>
    /\ final_report = ""
    /\ calls = <<>>
    /\ fusion_input = <<>>
    /\ exit_status = Unset
    /\ runs = <<>>

Respond(status) ==
  web' = [web EXCEPT !.stage = "responded", !.status = status]

\* os.unlink(tmp_file_path), then the response
UnlinkAndRespond(status) ==
  /\ file' = Missing
  /\ web' = [web EXCEPT !.stage = "responded", !.status = status,
                        !.unlinks = @ + 1]

\* lines 56-61 and 101: no file part, an empty file name, or a type that is
\* not allowed
UploadReject ==
  /\ web.stage = "received"
  /\ \/ ~web.upload.present
     \/ web.upload.filename = <<"">>
     \/ ~allowed_file(web.upload.filename)
  /\ Respond(BadRequest)
  /\ UNCHANGED <<argv, file, artifacts, pc, chunk_size, sentences, chunks,
                 results, final_report, calls, fusion_input, exit_status, runs>>

\* lines 63-69: the upload is saved under a fresh name with the suffix of the
\* secured file name
UploadSave ==
  /\ web.stage = "received"
  /\ web.upload.present
  /\ web.upload.filename # <<"">>
  /\ allowed_file(web.upload.filename)
  /\ \E name \in TmpNames :
       LET filename == secure_filename(web.upload.filename)
       IN  web' = [web EXCEPT !.stage = "saved",
                              !.tmp_file_path = <<name, Suffix(filename)>>]
  /\ file' = File(TRUE, web.upload.decodable, web.upload.content)
  /\ UNCHANGED <<argv, artifacts, pc, chunk_size, sentences, chunks, results,
                 final_report, calls, fusion_input, exit_status, runs>>

\* lines 73-78: subprocess.run starts python on the temporary copy; python
\* ends with status 2 at once when it cannot open the script
UploadSpawn ==
  /\ web.stage = "saved"
  /\ argv' = <<Program, web.tmp_file_path>>
  /\ web' = [web EXCEPT !.stage = "running"]
  /\ \/ pc' = "start" /\ UNCHANGED exit_status
     \/ pc' = "exit" /\ exit_status' = 2
  /\ UNCHANGED <<file, artifacts, chunk_size, sentences, chunks, results,
                 final_report, calls, fusion_input, runs>>

\* the timeout is answered without removing the temporary copy
UploadTimeoutLeak ==
  /\ web.stage = "running"
  /\ pc \in {"start", "analyze", "fusion", "sink"}
  /\ pc' = "killed"
  /\ Respond(RequestTimeout)
  /\ UNCHANGED <<argv, file, artifacts, chunk_size, sentences, chunks, results,
                 final_report, calls, fusion_input, exit_status, runs>>

\* lines 77 and 94-96: the analyzer is still running after 300 seconds;
\* subprocess.run kills it and raises TimeoutExpired
UploadTimeout ==
  /\ web.stage = "running"
  /\ pc \in {"start", "analyze", "fusion", "sink"}
  /\ pc' = "killed"
  /\ UnlinkAndRespond(RequestTimeout)
  /\ UNCHANGED <<argv, artifacts, chunk_size, sentences, chunks, results,
                 final_report, calls, fusion_input, exit_status, runs>>

\* lines 80-92: the analyzer has ended; the copy is removed and the answer
\* follows the return code
UploadFinish ==
  /\ web.stage = "running"
  /\ pc = "exit"
  /\ UnlinkAndRespond(IF exit_status = 0 THEN Ok ELSE ServerError)
  /\ UNCHANGED <<argv, artifacts, pc, chunk_size, sentences, chunks, results,
                 final_report, calls, fusion_input, exit_status, runs>>

\* lines 97-99: subprocess.run raises another exception: python cannot be
\* started, or the output of the ended analyzer cannot be decoded
UploadRunRaises ==
  /\ \/ web.stage = "saved"
     \/ web.stage = "running" /\ pc = "exit"
  /\ UnlinkAndRespond(ServerError)
  /\ UNCHANGED <<argv, artifacts, pc, chunk_size, sentences, chunks, results,
                 final_report, calls, fusion_input, exit_status, runs>>

UploadNext ==
  \/ UploadReject
  \/ UploadSave
  \/ UploadSpawn
  \/ MainRead
  \/ MainAnalyze
  \/ MainFusion
  \/ MainSink
  \/ UploadTimeout
  \/ UploadFinish
  \/ UploadRunRaises

SpecUpload == UploadInit /\ [][UploadNext]_vars

Saved == web.tmp_file_path # <<>>

Responded == web.stage = "responded"

\* C12: once the temporary copy exists it stays until the analysis has ended,
\* and every ending (exit status zero, non-zero exit status, the timeout,
\* another exception) removes it exactly once before the response; the timeout,
\* and only the timeout, is answered 408, which is neither 200 nor 500.
UploadCleansUp ==
  /\ (Saved /\ ~Responded) => (file.exists /\ web.unlinks = 0)
  /\ (Saved /\ Responded) => (~file.exists /\ web.unlinks = 1)
  /\ ~Saved => web.unlinks = 0
  /\ Responded => (web.status = RequestTimeout <=> pc = "killed")
  /\ (Responded /\ Saved /\ pc # "killed") => web.status \in {Ok, ServerError}
  /\ RequestTimeout \notin {Ok, ServerError}

UploadCleansUpWitness ==
  /\ Responded
  /\ Saved
  /\ pc = "killed"
  /\ web.status = RequestTimeout
  /\ web.unlinks = 1
  /\ ~file.exists

\* C13: the route answers success only for a run that made the fusion call
\* and wrote its artifact; an upload of an allowed type whose run ends on an
\* unsupported format, an unreadable copy or zero units is answered as an
\* error.
SuccessMeansArtifact ==
  web.status = Ok => (FusionCalled /\ Written)

====
